---- MODULE Spec2Model ----
(***************************************************************************)
(* Model of netbox/project-static/bundle.js: the build script that bundles *)
(* the NetBox style sheets and scripts with esbuild.                       *)
(*                                                                         *)
(* The script is one chain of async functions.  A state of the model is a  *)
(* point at which that chain is suspended on an await; the program actions *)
(* are the continuations that run between two awaits, and the environment  *)
(* actions are the settlements of the external promises (esbuild.build,    *)
(* fast-glob, PurgeCSS.purge, fs.promises.writeFile).                      *)
(*                                                                         *)
(* Strings are TLA+ strings.  The check mark that starts each completion   *)
(* message in the source is left out of the message texts.                 *)
(***************************************************************************)
EXTENDS Integers, Sequences, FiniteSets, TLC

\* Longest command line (number of arguments after the script name).
MaxArgs == 2

\* Largest number of files in the metafile of one style build.
MaxOutputs == 2

VARIABLES
    ARGS,        \* process.argv.slice(2)
    pc,          \* the promise of bundleAll: "entry", "awaiting", "resolved", "rejected"
    queue,       \* the bundle jobs bundleAll has still to call, in order
    status,      \* per job: "idle", "inflight", "fulfilled", "rejected", "done"
    calls,       \* per job: how many times the job was invoked
    config,      \* per job: the options handed to esbuild.build
    result,      \* per job: what esbuild.build settled with
    stdout,      \* lines written by console.log
    stderr,      \* values written by console.error
    onEnd,       \* the purgecss plugin: position of its setup and onEnd callback
    outputKeys,  \* onEnd: Object.keys(args.metafile.outputs)
    purgeArg,    \* onEnd: the css list handed to PurgeCSS.purge
    res,         \* onEnd: what PurgeCSS.purge returned
    wi,          \* onEnd: index in res of the writeFile in flight
    written      \* files overwritten by fs.promises.writeFile

vars == <<ARGS, pc, queue, status, calls, config, result, stdout, stderr,
          onEnd, outputKeys, purgeArg, res, wi, written>>

pluginVars == <<onEnd, outputKeys, purgeArg, res, wi, written>>

----------------------------------------------------------------------------
(* Strings and arrays *)

\* String.prototype.endsWith
EndsWith(s, suffix) ==
    /\ Len(s) >= Len(suffix)
    /\ SubSeq(s, Len(s) - Len(suffix) + 1, Len(s)) = suffix

\* Index of the first occurrence of the one-character string c in s at or
\* after position i, or 0 when there is none.
RECURSIVE IndexOf(_, _, _)
IndexOf(s, c, i) ==
    IF i > Len(s) THEN 0
    ELSE IF SubSeq(s, i, i) = c THEN i
    ELSE IndexOf(s, c, i + 1)

\* String.prototype.split with a one-character separator.
RECURSIVE Split(_, _)
Split(s, sep) ==
    LET k == IndexOf(s, sep, 1)
    IN  IF k = 0 THEN <<s>>
        ELSE <<SubSeq(s, 1, k - 1)>> \o Split(SubSeq(s, k + 1, Len(s)), sep)

\* Array.prototype.includes
Includes(arr, x) == \E i \in DOMAIN arr : arr[i] = x

\* Array.prototype.filter with the predicate k => k.endsWith(suffix)
RECURSIVE FilterEndsWith(_, _)
FilterEndsWith(arr, suffix) ==
    IF arr = <<>> THEN <<>>
    ELSE (IF EndsWith(Head(arr), suffix) THEN <<Head(arr)>> ELSE <<>>)
             \o FilterEndsWith(Tail(arr), suffix)

----------------------------------------------------------------------------
(* Command line *)

Flags == {"--styles", "--scripts", "--no-cache"}

\* Every command line of at most MaxArgs arguments.
ArgLists == UNION {[1..n -> Flags] : n \in 0..MaxArgs}

----------------------------------------------------------------------------
(* Configuration *)

Jobs == {"bundleStyles", "bundleNetBox", "bundleGraphIQL"}

\* Bundler options common to all bundle jobs.
options ==
    [outdir |-> "./dist", bundle |-> TRUE, minify |-> TRUE,
     sourcemap |-> "external", sourcesContent |-> FALSE, logLevel |-> "error"]

\* Object.entries(entryPoints) of each job: <<targetName, sourceName>>.
GraphIQLEntryPoints == << <<"graphiql", "netbox-graphiql/index.ts">> >>

NetBoxEntryPoints ==
    << <<"netbox", "src/index.ts">>,
       <<"lldp", "src/device/lldp.ts">>,
       <<"config", "src/device/config.ts">>,
       <<"status", "src/device/status.ts">> >>

StylesEntryPoints ==
    << <<"netbox-external", "styles/_external.scss">>,
       <<"netbox-light", "styles/_light.scss">>,
       <<"netbox-dark", "styles/_dark.scss">>,
       <<"netbox-print", "styles/_print.scss">>,
       <<"rack_elevation", "styles/_rack_elevation.scss">>,
       <<"cable_trace", "styles/_cable_trace.scss">>,
       <<"graphiql", "netbox-graphiql/graphiql.scss">> >>

\* Variant of PluginOptions that ignores --no-cache.
PluginOptionsAlwaysCached(args) == [outputStyle |-> "compressed"]

\* const pluginOptions = { outputStyle: 'compressed' }, with cache: false
\* when ARGS.includes('--no-cache').
PluginOptions(args) ==
    IF Includes(args, "--no-cache")
    THEN ("cache" :> FALSE) @@ [outputStyle |-> "compressed"]
    ELSE [outputStyle |-> "compressed"]

\* The argument of esbuild.build in each job; a later key overrides options.
GraphIQLBuildOptions ==
    [entryPoints |-> GraphIQLEntryPoints, target |-> "es2016",
     define |-> [global |-> "window"]] @@ options

NetBoxBuildOptions ==
    [entryPoints |-> NetBoxEntryPoints, target |-> "es2016"] @@ options

StylesBuildOptions(args) ==
    [sourcemap |-> FALSE,
     entryPoints |-> StylesEntryPoints,
     metafile |-> TRUE,
     plugins |-> << [name |-> "sass", options |-> PluginOptions(args)],
                    [name |-> "purgecss",
                     options |-> [safelist |-> [greedy |-> <<"/^ss-/", "/^dropdown-/">>]]] >>,
     loader |-> [eot |-> "file", woff |-> "file", woff2 |-> "file",
                 svg |-> "file", ttf |-> "file"]] @@ options

BuildOptions(j, args) ==
    CASE j = "bundleStyles" -> StylesBuildOptions(args)
      [] j = "bundleNetBox" -> NetBoxBuildOptions
      [] j = "bundleGraphIQL" -> GraphIQLBuildOptions

----------------------------------------------------------------------------
(* What esbuild.build settles with *)

NoResult == [kind |-> "none", errors |-> <<>>, err |-> ""]
Returned(errors) == [kind |-> "result", errors |-> errors, err |-> ""]
Threw(err) == [kind |-> "error", errors |-> <<>>, err |-> err]

\* The error lists a build may return.
ErrorLists == {<<>>, <<"error: could not resolve">>}

----------------------------------------------------------------------------
(* The bundle jobs: what each does once its build has settled *)

\* The completion message of one entry point.
Message(source, targetName, ext) ==
    "Bundled source file '" \o source \o "' to '" \o targetName \o "." \o ext \o "'"

\* const source = sourceName.split('/')[1]
SourceOf(sourceName) == Split(sourceName, "/")[2]

\* The for loop over Object.entries(entryPoints) that logs the messages.
CompletionMessages(entryPoints, ext) ==
    [i \in 1..Len(entryPoints) |->
        Message(SourceOf(entryPoints[i][2]), entryPoints[i][1], ext)]

\* The effect of a job's try block after the await and of its catch block:
\* out is logged with console.log, err with console.error, and throws says
\* whether an error leaves the job.
Outcome(out, err, throws) == [out |-> out, err |-> err, throws |-> throws]

BundleGraphIQLSettled(r) ==
    IF r.kind = "error" THEN Outcome(<<>>, <<r.err>>, FALSE)
    ELSE IF Len(r.errors) = 0
         THEN Outcome(<<"Bundled source file 'netbox-graphiql/index.ts' to 'graphiql.js'">>,
                      <<>>, FALSE)
         ELSE Outcome(<<>>, <<>>, FALSE)

\* Variant of BundleNetBoxSettled without the try/catch.
BundleNetBoxSettledNoCatch(r) ==
    IF r.kind = "error" THEN Outcome(<<>>, <<>>, TRUE)
    ELSE IF Len(r.errors) = 0
         THEN Outcome(CompletionMessages(NetBoxEntryPoints, "js"), <<>>, FALSE)
         ELSE Outcome(<<>>, <<>>, FALSE)

\* Variant of BundleNetBoxSettled without the test of result.errors.length.
BundleNetBoxSettledNoCheck(r) ==
    IF r.kind = "error" THEN Outcome(<<>>, <<r.err>>, FALSE)
    ELSE Outcome(CompletionMessages(NetBoxEntryPoints, "js"), <<>>, FALSE)

BundleNetBoxSettled(r) ==
    IF r.kind = "error" THEN Outcome(<<>>, <<r.err>>, FALSE)
    ELSE IF Len(r.errors) = 0
         THEN Outcome(CompletionMessages(NetBoxEntryPoints, "js"), <<>>, FALSE)
         ELSE Outcome(<<>>, <<>>, FALSE)

\* Variant of BundleStylesSettled without the try/catch.
BundleStylesSettledNoCatch(r) ==
    IF r.kind = "error" THEN Outcome(<<>>, <<>>, TRUE)
    ELSE IF Len(r.errors) = 0
         THEN Outcome(CompletionMessages(StylesEntryPoints, "css"), <<>>, FALSE)
         ELSE Outcome(<<>>, <<>>, FALSE)

BundleStylesSettled(r) ==
    IF r.kind = "error" THEN Outcome(<<>>, <<r.err>>, FALSE)
    ELSE IF Len(r.errors) = 0
         THEN Outcome(CompletionMessages(StylesEntryPoints, "css"), <<>>, FALSE)
         ELSE Outcome(<<>>, <<>>, FALSE)

----------------------------------------------------------------------------
(* bundleScripts and bundleAll *)

\* Variant of BundleScripts with the two jobs in the other order.
BundleScriptsReversed == <<"bundleGraphIQL", "bundleNetBox">>

\* for (const bundle of [bundleNetBox, bundleGraphIQL]) await bundle()
BundleScripts == <<"bundleNetBox", "bundleGraphIQL">>

\* Variant of Dispatch that runs the script phase before the style phase.
DispatchScriptsFirst(args) ==
    IF Includes(args, "--styles") THEN <<"bundleStyles">>
    ELSE IF Includes(args, "--scripts") THEN BundleScripts
    ELSE BundleScripts \o <<"bundleStyles">>

\* Variant of Dispatch whose --styles branch does not return.
DispatchFallThrough(args) ==
    IF Includes(args, "--scripts") /\ ~Includes(args, "--styles") THEN BundleScripts
    ELSE <<"bundleStyles">> \o BundleScripts

\* Variant of Dispatch that tests --scripts before --styles.
DispatchScriptsPrecedence(args) ==
    IF Includes(args, "--scripts") THEN BundleScripts
    ELSE IF Includes(args, "--styles") THEN <<"bundleStyles">>
    ELSE <<"bundleStyles">> \o BundleScripts

\* The jobs bundleAll calls, in order, one awaited before the next is called.
Dispatch(args) ==
    IF Includes(args, "--styles") THEN <<"bundleStyles">>
    ELSE IF Includes(args, "--scripts") THEN BundleScripts
    ELSE <<"bundleStyles">> \o BundleScripts

\* Calling job j: it runs up to its await of esbuild.build.
CallJob(j) ==
    /\ status' = [status EXCEPT ![j] = "inflight"]
    /\ calls' = [calls EXCEPT ![j] = @ + 1]
    /\ config' = [config EXCEPT ![j] = BuildOptions(j, ARGS)]

\* What follows the await of a job in bundleScripts and bundleAll: an error
\* leaving the job rejects every promise up to bundleAll's; otherwise the
\* next job is called, or bundleAll returns.
Continue(j, o) ==
    /\ stdout' = stdout \o o.out
    /\ stderr' = stderr \o o.err
    /\ result' = result
    /\ IF o.throws
       THEN /\ pc' = "rejected"
            /\ status' = [status EXCEPT ![j] = "done"]
            /\ UNCHANGED <<queue, calls, config>>
       ELSE IF queue = <<>>
       THEN /\ pc' = "resolved"
            /\ status' = [status EXCEPT ![j] = "done"]
            /\ UNCHANGED <<queue, calls, config>>
       ELSE /\ pc' = "awaiting"
            /\ queue' = Tail(queue)
            /\ status' = [status EXCEPT ![j] = "done", ![Head(queue)] = "inflight"]
            /\ calls' = [calls EXCEPT ![Head(queue)] = @ + 1]
            /\ config' = [config EXCEPT ![Head(queue)] = BuildOptions(Head(queue), ARGS)]

Settled(j) == status[j] \in {"fulfilled", "rejected"}

\* bundleAll() at the end of the script, up to its first await.
BundleAll ==
    /\ pc = "entry"
    /\ pc' = "awaiting"
    /\ queue' = Tail(Dispatch(ARGS))
    /\ CallJob(Head(Dispatch(ARGS)))
    /\ UNCHANGED <<ARGS, result, stdout, stderr, pluginVars>>

BundleStylesResume ==
    /\ pc = "awaiting"
    /\ Settled("bundleStyles")
    /\ Continue("bundleStyles", BundleStylesSettled(result["bundleStyles"]))
    /\ UNCHANGED <<ARGS, pluginVars>>

BundleNetBoxResume ==
    /\ pc = "awaiting"
    /\ Settled("bundleNetBox")
    /\ Continue("bundleNetBox", BundleNetBoxSettled(result["bundleNetBox"]))
    /\ UNCHANGED <<ARGS, pluginVars>>

BundleGraphIQLResume ==
    /\ pc = "awaiting"
    /\ Settled("bundleGraphIQL")
    /\ Continue("bundleGraphIQL", BundleGraphIQLSettled(result["bundleGraphIQL"]))
    /\ UNCHANGED <<ARGS, pluginVars>>

----------------------------------------------------------------------------
(* esbuild.build of the script jobs *)

ScriptBuildReturns(j, errors) ==
    /\ status[j] = "inflight"
    /\ status' = [status EXCEPT ![j] = "fulfilled"]
    /\ result' = [result EXCEPT ![j] = Returned(errors)]
    /\ UNCHANGED <<ARGS, pc, queue, calls, config, stdout, stderr, pluginVars>>

ScriptBuildThrows(j) ==
    /\ status[j] = "inflight"
    /\ status' = [status EXCEPT ![j] = "rejected"]
    /\ result' = [result EXCEPT ![j] = Threw("Error: Build failed with 1 error")]
    /\ UNCHANGED <<ARGS, pc, queue, calls, config, stdout, stderr, pluginVars>>

----------------------------------------------------------------------------
(* esbuild.build of the style job, with the purgecss plugin *)

\* Files a style build may emit, in the order of the metafile.
OutputPool ==
    <<"dist/netbox-light.css", "dist/netbox-dark.css",
      "dist/materialdesignicons-webfont.woff2", "dist/logo.svg", "dist/css.ttf">>

\* The elements of seq at the indices in S, in order.
RECURSIVE Pick(_, _, _)
Pick(seq, S, i) ==
    IF i > Len(seq) THEN <<>>
    ELSE (IF i \in S THEN <<seq[i]>> ELSE <<>>) \o Pick(seq, S, i + 1)

\* The metafiles a build may produce.
Metafiles ==
    {Pick(OutputPool, S, 1) :
        S \in {T \in SUBSET (1..Len(OutputPool)) : Cardinality(T) <= MaxOutputs}}

\* What PurgeCSS.purge may return for the css list it was given: a result
\* {file, css} for some of those files.
PurgeResults(css) ==
    {[i \in 1..Len(f) |-> [file |-> f[i], css |-> "purged"]] :
        f \in {Pick(css, S, 1) : S \in SUBSET (1..Len(css))}}

\* An error thrown inside the build (by the bundler or by a plugin callback)
\* rejects the promise of esbuild.build.
RejectStyles(err) ==
    /\ status' = [status EXCEPT !["bundleStyles"] = "rejected"]
    /\ result' = [result EXCEPT !["bundleStyles"] = Threw(err)]
    /\ onEnd' = "ended"

\* if (!build.initialOptions.metafile) throw ...
SetupThrows(initialOptions) == ~initialOptions.metafile

\* Variant of OnEndCss that forwards every output file.
OnEndCssUnfiltered(keys) == keys

\* const css = outputKeys.filter(k => k.endsWith('.css'))
OnEndCss(keys) == FilterEndsWith(keys, ".css")

\* setup(build) of the purgecss plugin.
PluginSetup ==
    /\ status["bundleStyles"] = "inflight"
    /\ onEnd = "none"
    /\ IF SetupThrows(config["bundleStyles"])
       THEN RejectStyles("Error: metafile must be set to true in esbuild configuration")
       ELSE /\ onEnd' = "registered"
            /\ UNCHANGED <<status, result>>
    /\ UNCHANGED <<ARGS, pc, queue, calls, config, stdout, stderr,
                   outputKeys, purgeArg, res, wi, written>>

\* The bundler fails before the build ends.
StylesBuildFails ==
    /\ status["bundleStyles"] = "inflight"
    /\ onEnd = "registered"
    /\ RejectStyles("Error: Build failed with 1 error")
    /\ UNCHANGED <<ARGS, pc, queue, calls, config, stdout, stderr,
                   outputKeys, purgeArg, res, wi, written>>

\* The build ends and the onEnd callback runs up to its await of glob.
OnEnd(keys) ==
    /\ status["bundleStyles"] = "inflight"
    /\ onEnd = "registered"
    /\ outputKeys' = keys
    /\ onEnd' = "glob"
    /\ UNCHANGED <<ARGS, pc, queue, status, calls, config, result, stdout, stderr,
                   purgeArg, res, wi, written>>

\* glob settles; on success purgeCSS.purge is called with the css list.
GlobReturns ==
    /\ onEnd = "glob"
    /\ purgeArg' = OnEndCss(outputKeys)
    /\ onEnd' = "purge"
    /\ UNCHANGED <<ARGS, pc, queue, status, calls, config, result, stdout, stderr,
                   outputKeys, res, wi, written>>

GlobThrows ==
    /\ onEnd = "glob"
    /\ RejectStyles("Error: glob failed")
    /\ UNCHANGED <<ARGS, pc, queue, calls, config, stdout, stderr,
                   outputKeys, purgeArg, res, wi, written>>

\* purge settles; on success the for loop calls writeFile for the first result.
PurgeReturns(r) ==
    /\ onEnd = "purge"
    /\ res' = r
    /\ IF r = <<>>
       THEN onEnd' = "finished" /\ wi' = wi
       ELSE onEnd' = "write" /\ wi' = 1
    /\ UNCHANGED <<ARGS, pc, queue, status, calls, config, result, stdout, stderr,
                   outputKeys, purgeArg, written>>

PurgeThrows ==
    /\ onEnd = "purge"
    /\ RejectStyles("Error: purge failed")
    /\ UNCHANGED <<ARGS, pc, queue, calls, config, stdout, stderr,
                   outputKeys, purgeArg, res, wi, written>>

\* writeFile settles; on success the loop goes on to the next result.
WriteFileReturns ==
    /\ onEnd = "write"
    /\ written' = written \cup {res[wi].file}
    /\ IF wi = Len(res)
       THEN onEnd' = "finished" /\ wi' = wi
       ELSE onEnd' = "write" /\ wi' = wi + 1
    /\ UNCHANGED <<ARGS, pc, queue, status, calls, config, result, stdout, stderr,
                   outputKeys, purgeArg, res>>

WriteFileThrows ==
    /\ onEnd = "write"
    /\ RejectStyles("Error: EACCES: permission denied")
    /\ UNCHANGED <<ARGS, pc, queue, calls, config, stdout, stderr,
                   outputKeys, purgeArg, res, wi, written>>

\* The onEnd callback has returned and esbuild.build returns its result.
StylesBuildReturns(errors) ==
    /\ status["bundleStyles"] = "inflight"
    /\ onEnd = "finished"
    /\ status' = [status EXCEPT !["bundleStyles"] = "fulfilled"]
    /\ result' = [result EXCEPT !["bundleStyles"] = Returned(errors)]
    /\ onEnd' = "ended"
    /\ UNCHANGED <<ARGS, pc, queue, calls, config, stdout, stderr,
                   outputKeys, purgeArg, res, wi, written>>

----------------------------------------------------------------------------
(* Specification *)

NoConfig == [entryPoints |-> <<>>]

Init ==
    /\ ARGS \in ArgLists
    /\ pc = "entry"
    /\ queue = <<>>
    /\ status = [j \in Jobs |-> "idle"]
    /\ calls = [j \in Jobs |-> 0]
    /\ config = [j \in Jobs |-> NoConfig]
    /\ result = [j \in Jobs |-> NoResult]
    /\ stdout = <<>>
    /\ stderr = <<>>
    /\ onEnd = "none"
    /\ outputKeys = <<>>
    /\ purgeArg = <<>>
    /\ res = <<>>
    /\ wi = 0
    /\ written = {}

Next ==
    \/ BundleAll
    \/ BundleStylesResume
    \/ BundleNetBoxResume
    \/ BundleGraphIQLResume
    \/ \E j \in {"bundleNetBox", "bundleGraphIQL"} :
          \/ \E errors \in ErrorLists : ScriptBuildReturns(j, errors)
          \/ ScriptBuildThrows(j)
    \/ PluginSetup
    \/ StylesBuildFails
    \/ \E keys \in Metafiles : OnEnd(keys)
    \/ GlobReturns
    \/ GlobThrows
    \/ \E r \in PurgeResults(purgeArg) : PurgeReturns(r)
    \/ PurgeThrows
    \/ WriteFileReturns
    \/ WriteFileThrows
    \/ \E errors \in ErrorLists : StylesBuildReturns(errors)

Spec == Init /\ [][Next]_vars

\* Every promise the script awaits settles, and the event loop runs every
\* continuation that is ready.
FairSpec == Spec /\ WF_vars(Next)

----------------------------------------------------------------------------
(* Properties *)

StylesFlag == \E i \in DOMAIN ARGS : ARGS[i] = "--styles"
ScriptsFlag == \E i \in DOMAIN ARGS : ARGS[i] = "--scripts"
NoCacheFlag == \E i \in DOMAIN ARGS : ARGS[i] = "--no-cache"

ScriptJobs == {"bundleNetBox", "bundleGraphIQL"}

Started(j) == status[j] # "idle"

Succeeded(j) == result[j].kind = "result" /\ result[j].errors = <<>>

Failed(j) == result[j].kind = "error"

\* C1: with neither --styles nor --scripts, bundleAll starts with the style
\* build, no script build is started before bundleStyles has returned, and a
\* finished run has invoked all three jobs.
C1_StylesThenScripts ==
    (~StylesFlag /\ ~ScriptsFlag) =>
        /\ pc # "entry" => Started("bundleStyles")
        /\ \A j \in ScriptJobs : Started(j) => status["bundleStyles"] = "done"
        /\ pc = "resolved" => \A j \in Jobs : calls[j] = 1

C1_Witness ==
    /\ ~StylesFlag /\ ~ScriptsFlag
    /\ status["bundleStyles"] = "done"
    /\ status["bundleNetBox"] = "inflight"

\* C2: with --styles no script build is ever invoked and the style build is;
\* with --scripts and not --styles the style build is never invoked and the
\* script builds are.
C2_FlagRestrictsPhase ==
    /\ StylesFlag =>
          /\ \A j \in ScriptJobs : calls[j] = 0
          /\ pc # "entry" => calls["bundleStyles"] = 1
    /\ (ScriptsFlag /\ ~StylesFlag) =>
          /\ calls["bundleStyles"] = 0
          /\ pc # "entry" => calls["bundleNetBox"] = 1
          /\ pc = "resolved" => calls["bundleGraphIQL"] = 1

C2_Witness ==
    /\ StylesFlag /\ ~ScriptsFlag
    /\ pc = "resolved"
    /\ calls["bundleStyles"] = 1

\* C3: an error thrown by a build is logged to standard error by its job,
\* never rejects bundleAll, and the job that follows is still started: the
\* script phase after a failed style build, bundleGraphIQL after a failed
\* bundleNetBox.
C3_ErrorsCaughtRunContinues ==
    /\ pc # "rejected"
    /\ \A j \in Jobs :
          (status[j] = "done" /\ Failed(j)) => Includes(stderr, result[j].err)
    /\ Len(stderr) = Cardinality({j \in Jobs : status[j] = "done" /\ Failed(j)})
    /\ (~StylesFlag /\ ~ScriptsFlag /\ status["bundleStyles"] = "done")
          => Started("bundleNetBox")
    /\ status["bundleNetBox"] = "done" => Started("bundleGraphIQL")

C3_Witness ==
    /\ status["bundleStyles"] = "done" /\ Failed("bundleStyles")
    /\ status["bundleNetBox"] = "done" /\ Failed("bundleNetBox")
    /\ status["bundleGraphIQL"] = "inflight"

\* C4: whatever the flags and whatever the builds do (an error thrown by the
\* bundler or by the purgecss plugin included), the promise of bundleAll is
\* never rejected, and when every external call settles it is resolved.
C4_NeverRejectedAndFinishes ==
    /\ [](pc # "rejected")
    /\ <>(pc = "resolved")

C4_Witness ==
    /\ pc = "resolved"
    /\ result["bundleStyles"] = Threw("Error: EACCES: permission denied")
    /\ Failed("bundleNetBox")
    /\ Failed("bundleGraphIQL")

\* Array.prototype.filter with the predicate a => a !== x
Without(arr, x) == SelectSeq(arr, LAMBDA a : a # x)

\* C5: the options of the Sass plugin hold cache: false exactly when
\* --no-cache is given and always hold outputStyle: 'compressed'; the jobs
\* that run, the options of the script builds and the rest of the options of
\* the style build are those of the same command line without --no-cache.
C5_NoCacheOnlyDisablesCache ==
    /\ Started("bundleStyles") =>
          LET o == config["bundleStyles"].plugins[1].options
              plain == StylesBuildOptions(<<>>)
          IN  /\ ("cache" \in DOMAIN o) <=> NoCacheFlag
              /\ ("cache" \in DOMAIN o) => o.cache = FALSE
              /\ o.outputStyle = "compressed"
              /\ DOMAIN o \subseteq {"cache", "outputStyle"}
              /\ config["bundleStyles"].plugins[2] = plain.plugins[2]
              /\ \A k \in DOMAIN plain \ {"plugins"} :
                    config["bundleStyles"][k] = plain[k]
    /\ Started("bundleNetBox") => config["bundleNetBox"] = NetBoxBuildOptions
    /\ Started("bundleGraphIQL") => config["bundleGraphIQL"] = GraphIQLBuildOptions
    /\ pc = "resolved" =>
          {j \in Jobs : calls[j] > 0}
              = {Dispatch(Without(ARGS, "--no-cache"))[i] :
                    i \in DOMAIN Dispatch(Without(ARGS, "--no-cache"))}

C5_Witness ==
    /\ NoCacheFlag
    /\ Started("bundleStyles")
    /\ config["bundleStyles"].plugins[1].options.cache = FALSE
    /\ Started("bundleGraphIQL")

\* The output names of each job.
Targets(j) ==
    CASE j = "bundleStyles" ->
            {"netbox-external.css", "netbox-light.css", "netbox-dark.css",
             "netbox-print.css", "rack_elevation.css", "cable_trace.css",
             "graphiql.css"}
      [] j = "bundleNetBox" -> {"netbox.js", "lldp.js", "config.js", "status.js"}
      [] j = "bundleGraphIQL" -> {"graphiql.js"}

\* The number of lines of standard output that report target as bundled.
Reported(target) ==
    Cardinality({i \in DOMAIN stdout :
                    /\ EndsWith(stdout[i], "' to '" \o target \o "'")
                    /\ SubSeq(stdout[i], 1, 21) = "Bundled source file '"})

\* C6: for each job, every entry point has exactly one completion message
\* once the job has returned from a build with no errors, and none when the
\* build threw or returned errors (or has not returned yet); nothing else is
\* written to standard output.
C6_CompletionOnlyOnSuccess ==
    /\ \A j \in Jobs : \A t \in Targets(j) :
          Reported(t) = IF status[j] = "done" /\ Succeeded(j) THEN 1 ELSE 0
    /\ Len(stdout) = Cardinality({t \in UNION {Targets(j) : j \in Jobs} : Reported(t) = 1})

C6_Witness ==
    /\ status["bundleStyles"] = "done" /\ Succeeded("bundleStyles")
    /\ status["bundleNetBox"] = "done" /\ result["bundleNetBox"].kind = "result"
    /\ result["bundleNetBox"].errors # <<>>
    /\ status["bundleGraphIQL"] = "done" /\ Failed("bundleGraphIQL")

\* The files of OutputPool that the file loader emits.
Assets == {"dist/materialdesignicons-webfont.woff2", "dist/logo.svg", "dist/css.ttf"}

Elements(seq) == {seq[i] : i \in DOMAIN seq}

\* C7: the list handed to PurgeCSS.purge is the list of output files without
\* the font and SVG assets, in the order of the metafile, and the files
\* overwritten are among those PurgeCSS returned, never an asset.
C7_PurgeTouchesOnlyCss ==
    /\ onEnd \in {"purge", "write", "finished"} =>
          /\ purgeArg = SelectSeq(outputKeys, LAMBDA k : k \notin Assets)
          /\ Elements(purgeArg) \cap Assets = {}
    /\ written \subseteq {res[i].file : i \in DOMAIN res}
    /\ written \subseteq Elements(outputKeys)
    /\ written \cap Assets = {}

C7_Witness ==
    /\ onEnd = "finished"
    /\ written = {"dist/netbox-dark.css"}
    /\ Elements(outputKeys) \cap Assets # {}

\* C8: at most one build is in flight, bundleGraphIQL is not started before
\* bundleNetBox has returned, and no job is invoked twice.
C8_OneBuildAtATime ==
    /\ Cardinality({j \in Jobs : status[j] = "inflight"}) <= 1
    /\ Started("bundleGraphIQL") => status["bundleNetBox"] = "done"
    /\ \A j \in Jobs : calls[j] <= 1

C8_Witness ==
    /\ status["bundleGraphIQL"] = "inflight"
    /\ status["bundleNetBox"] = "done"
    /\ status["bundleStyles"] = "done"

\* The last component of a path.
FileName(path) == Split(path, "/")[Len(Split(path, "/"))]

\* C9: after a successful build, each entry point of bundleNetBox and
\* bundleStyles has a message that names the file name of its source path,
\* and the messages of distinct entry points name distinct sources.
C9_MessageNamesSourceFile ==
    /\ (status["bundleNetBox"] = "done" /\ Succeeded("bundleNetBox")) =>
          \A i \in DOMAIN NetBoxEntryPoints :
              Includes(stdout, Message(FileName(NetBoxEntryPoints[i][2]),
                                       NetBoxEntryPoints[i][1], "js"))
    /\ (status["bundleStyles"] = "done" /\ Succeeded("bundleStyles")) =>
          \A i \in DOMAIN StylesEntryPoints :
              Includes(stdout, Message(FileName(StylesEntryPoints[i][2]),
                                       StylesEntryPoints[i][1], "css"))

\* C10: with both --styles and --scripts, in either order, the style phase
\* runs and the script builds are never invoked.
C10_StylesTakesPrecedence ==
    (StylesFlag /\ ScriptsFlag) =>
        /\ \A j \in ScriptJobs : calls[j] = 0
        /\ pc # "entry" => calls["bundleStyles"] = 1
        /\ pc = "resolved" => status["bundleStyles"] = "done"

C10_Witness ==
    /\ ARGS = <<"--scripts", "--styles">>
    /\ pc = "resolved"
    /\ calls["bundleStyles"] = 1

====
